---- MODULE Spec2Model ----
(***************************************************************************)
(* A model of the Health Connect -> daily note synchronisation plugin      *)
(* (src/src/main.ts).                                                      *)
(*                                                                         *)
(* Text (a note's body, a section body, a replacement template) is a       *)
(* sequence of atoms.  An atom is either one of the characters the code's  *)
(* regular expression and String.replace treat specially ("#", " ", "\n",  *)
(* "\r", "$", "&", "`", "'", a digit, a Unicode line separator written     *)
(* "<LS>") or a run of ordinary characters that contains none of them.     *)
(***************************************************************************)
EXTENDS Integers, Sequences, FiniteSets, TLC

(***************************************************************************)
(* Text helpers                                                            *)
(***************************************************************************)

\* ECMAScript LineTerminator: what ^ and $ look at under the "m" flag.
LineTerminators == {"\n", "\r", "<LS>", "<PS>"}

Digits == {"0", "1", "2", "3", "4", "5", "6", "7", "8", "9"}

DigitVal(c) ==
    CASE c = "0" -> 0 [] c = "1" -> 1 [] c = "2" -> 2 [] c = "3" -> 3
      [] c = "4" -> 4 [] c = "5" -> 5 [] c = "6" -> 6 [] c = "7" -> 7
      [] c = "8" -> 8 [] c = "9" -> 9

\* The text from position i on (empty when i is past the end).
From(s, i) == IF i > Len(s) THEN << >> ELSE SubSeq(s, i, Len(s))

\* The text before position i.
Upto(s, i) == IF i <= 1 THEN << >> ELSE SubSeq(s, 1, i - 1)

RECURSIVE RunOf(_, _, _)
\* How many consecutive atoms equal to c start at position i (a greedy c*).
RunOf(s, i, c) ==
    IF i <= Len(s) /\ s[i] = c THEN 1 + RunOf(s, i + 1, c) ELSE 0

RECURSIVE RunNot(_, _, _)
\* How many consecutive atoms different from c start at position i ([^c]*).
RunNot(s, i, c) ==
    IF i <= Len(s) /\ s[i] # c THEN 1 + RunNot(s, i + 1, c) ELSE 0

RECURSIVE Concat(_)
Concat(ss) == IF ss = << >> THEN << >> ELSE Head(ss) \o Concat(Tail(ss))

(***************************************************************************)
(* String.prototype.replace: expansion of a replacement template           *)
(* (ECMAScript GetSubstitution).  caps is the list of capture groups, an   *)
(* unmatched group being the empty text.                                   *)
(***************************************************************************)
RECURSIVE GetSubstitution(_, _, _, _, _)
GetSubstitution(template, matched, before, after, caps) ==
    IF template = << >> THEN << >>
    ELSE IF Head(template) # "$" \/ Len(template) = 1
    THEN <<Head(template)>>
             \o GetSubstitution(Tail(template), matched, before, after, caps)
    ELSE LET c    == template[2]
             m    == Len(caps)
             rest2 == From(template, 3)
             rest3 == From(template, 4)
             two  == IF Len(template) >= 3 /\ c \in Digits /\ template[3] \in Digits
                     THEN 10 * DigitVal(c) + DigitVal(template[3]) ELSE 0
         IN  CASE c = "$" ->
                    <<"$">> \o GetSubstitution(rest2, matched, before, after, caps)
               [] c = "&" ->
                    matched \o GetSubstitution(rest2, matched, before, after, caps)
               [] c = "`" ->
                    before \o GetSubstitution(rest2, matched, before, after, caps)
               [] c = "'" ->
                    after \o GetSubstitution(rest2, matched, before, after, caps)
               [] c \in Digits /\ two >= 1 /\ two <= m ->
                    caps[two] \o GetSubstitution(rest3, matched, before, after, caps)
               [] c \in Digits /\ ~(two >= 1 /\ two <= m)
                              /\ DigitVal(c) >= 1 /\ DigitVal(c) <= m ->
                    caps[DigitVal(c)]
                        \o GetSubstitution(rest2, matched, before, after, caps)
               [] OTHER ->
                    <<"$">> \o GetSubstitution(Tail(template), matched, before, after, caps)

\* The first position of atom c in s, or 0.
IndexOf(s, c) ==
    IF \E i \in 1..Len(s) : s[i] = c
    THEN CHOOSE i \in 1..Len(s) : s[i] = c /\ \A k \in 1..(i - 1) : s[k] # c
    ELSE 0

\* s.replace(pattern, template) for a one-atom string pattern: only the first
\* occurrence is replaced, and the template is expanded like any other.
StringReplaceFirst(s, pattern, template) ==
    LET i == IndexOf(s, pattern)
    IN  IF i = 0 THEN s
        ELSE Upto(s, i)
                 \o GetSubstitution(template, <<pattern>>, Upto(s, i), From(s, i + 1), << >>)
                 \o From(s, i + 1)

(***************************************************************************)
(* replaceSection: the section regular expression                          *)
(*   (^#+ NAME[ ]*\n)[^#]*((\n#)|($(?![\r\n])))      flags: m              *)
(***************************************************************************)
NoMatch == [start |-> 0]

\* ^ under the m flag.
AtLineStart(s, i) == i = 1 \/ s[i - 1] \in LineTerminators

\* heading_regex is put into the expression as it is (line 319), so what of
\* it is pattern syntax is read as such.  Of that syntax the model keeps the
\* parentheses, unnested and balanced: they match no text and open a group.
GroupMarks == {"(", ")"}

IsLiteral(atom) == atom \notin GroupMarks

\* The text the heading name matches as a pattern.
PatternText(name) == SelectSeq(name, IsLiteral)

RECURSIVE PatternGroups(_)
\* What the groups of the heading name capture, in the order they open.
PatternGroups(name) ==
    IF name = << >> THEN << >>
    ELSE IF Head(name) # "(" THEN PatternGroups(Tail(name))
    ELSE LET close == IndexOf(name, ")")
         IN  << PatternText(SubSeq(name, 2, close - 1)) >>
                 \o PatternGroups(From(name, close + 1))

\* Group 1 tried at position i after hashes "#": text is what the heading
\* name matches.  The position of the "\n" that closes the group, or 0.
HeadingLineEndAfter(s, i, hashes, text) ==
    LET first == i + hashes + 1
        after == first + Len(text)
    IN  IF /\ AtLineStart(s, i)
           /\ hashes >= 1
           /\ first - 1 <= Len(s) /\ s[first - 1] = " "
           /\ after - 1 <= Len(s)
           /\ SubSeq(s, first, after - 1) = text
           /\ after + RunOf(s, after, " ") <= Len(s)
           /\ s[after + RunOf(s, after, " ")] = "\n"
        THEN after + RunOf(s, after, " ") ELSE 0

\* Group 1 tried at position i: the position of the "\n" that closes it, or 0.
HeadingLineEnd(s, i, name) ==
    HeadingLineEndAfter(s, i, RunOf(s, i, "#"), PatternText(name))

\* Alternative (\n#) of group 2 at position p.
BoundaryIsHeading(s, p) == p + 1 <= Len(s) /\ s[p] = "\n" /\ s[p + 1] = "#"

\* Alternative ($(?![\r\n])) of group 2 at position p.
BoundaryIsEnd(s, p) ==
    /\ p = Len(s) + 1 \/ s[p] \in LineTerminators
    /\ ~(p <= Len(s) /\ s[p] \in {"\r", "\n"})

\* The whole expression tried at start position i: [^#]* is greedy and gives
\* back one atom at a time until the boundary group matches.  The groups are
\* the heading line, those of the heading name, the boundary and its two
\* alternatives.
\* The positions after the heading line closed at j where [^#]* may stop and
\* the boundary group match.
BoundariesAfter(s, j) ==
    {p \in (j + 1)..(j + 1 + RunNot(s, j + 1, "#")) :
        BoundaryIsHeading(s, p) \/ BoundaryIsEnd(s, p)}

\* The match that starts at i with its heading line closed at j and its
\* boundary at p; g3 is what the boundary group captures.
MatchWith(s, i, name, j, p, g3) ==
    [start |-> i,
     stop  |-> p + Len(g3),
     caps  |-> <<SubSeq(s, i, j)>> \o PatternGroups(name) \o <<g3, g3, << >> >>]

\* The match that starts at i, its heading line closed at j, among the
\* boundaries ends: the farthest, [^#]* being greedy.
MatchAmong(s, i, name, j, ends) ==
    IF j = 0 \/ ends = {} THEN NoMatch
    ELSE LET p == CHOOSE q \in ends : \A r \in ends : r <= q
         IN  MatchWith(s, i, name, j, p,
                       IF BoundaryIsHeading(s, p) THEN <<"\n", "#">> ELSE << >>)

MatchFrom(s, i, name, j) == MatchAmong(s, i, name, j, BoundariesAfter(s, j))

MatchAt(s, i, name) == MatchFrom(s, i, name, HeadingLineEnd(s, i, name))

\* RegExp.prototype.exec without the g flag: the leftmost match.
SectionRegexExec(s, name) ==
    LET starts == {i \in 1..Len(s) : MatchAt(s, i, name).start # 0}
    IN  IF starts = {} THEN NoMatch
        ELSE MatchAt(s, CHOOSE i \in starts : \A k \in starts : i <= k, name)

\* new_section_content.replace("$", "$$")
NewSectionContentEscaped(new_section_content) ==
    StringReplaceFirst(new_section_content, "$", <<"$", "$">>)

\* content.replace(section_regex, `$1${new_section_content_escaped}$2`)
\* content with match m replaced by the expansion of template.
Replaced(content, m, template) ==
    IF m.start = 0 THEN content
    ELSE Upto(content, m.start)
             \o GetSubstitution(template,
                                SubSeq(content, m.start, m.stop - 1),
                                Upto(content, m.start),
                                From(content, m.stop),
                                m.caps)
             \o From(content, m.stop)

NewContent(content, name, new_section_content) ==
    Replaced(content, SectionRegexExec(content, name),
             <<"$", "1">> \o NewSectionContentEscaped(new_section_content) \o <<"$", "2">>)


\* A replaceSection that appends the section where no heading matches.
ReplaceSectionOn_Appending(content, heading_regex, new_section_content) ==
    IF heading_regex = << >>
    THEN [modify |-> FALSE, content |-> content]
    ELSE IF SectionRegexExec(content, heading_regex).start = 0
    THEN [modify |-> TRUE,
          content |-> content \o <<"#", " ">> \o heading_regex \o <<"\n">>
                              \o new_section_content]
    ELSE [modify |-> TRUE,
          content |-> NewContent(content, heading_regex, new_section_content)]

\* replaceSection once the note is located and read (lines 309-329): whether
\* vault.modify is called, and with what.
ReplaceSectionOn(content, heading_regex, new_section_content) ==
    IF heading_regex = << >>
    THEN [modify |-> FALSE, content |-> content]
    ELSE IF SectionRegexExec(content, heading_regex).start = 0
    THEN [modify |-> FALSE, content |-> content]
    ELSE [modify |-> TRUE,
          content |-> NewContent(content, heading_regex, new_section_content)]

(***************************************************************************)
(* Values of the sensor data and their rendering                           *)
(*                                                                         *)
(* A JavaScript number is kept in tenths (val = 10 * the number), which    *)
(* covers whole numbers, one decimal (70.5 kg) and durations that are      *)
(* multiples of six seconds once divided by 60.                            *)
(***************************************************************************)
Num(tenths) == [kind |-> "num", val |-> tenths]
Undefined == [kind |-> "undefined", val |-> 0]
NaN == [kind |-> "NaN", val |-> 0]

\* Math.round: NaN for what is no number, else floor(x + 0.5).
MathRound(x) ==
    IF x.kind # "num" THEN NaN ELSE Num(10 * ((x.val + 5) \div 10))

\* x / 60 for a number of seconds whose sixtieth has one decimal.
DivBy60(x) ==
    IF x.kind # "num" THEN NaN ELSE Num(x.val \div 60)

\* Math.round(x / 60) for any whole number of seconds.
RoundDivBy60(x) ==
    IF x.kind # "num" THEN NaN ELSE Num(10 * ((2 * x.val + 600) \div 1200))

\* a + b
Plus(a, b) ==
    IF a.kind # "num" \/ b.kind # "num" THEN NaN ELSE Num(a.val + b.val)

\* String(x), as one atom of ordinary characters.
JsString(x) ==
    CASE x.kind = "undefined" -> "undefined"
      [] x.kind = "NaN" -> "NaN"
      [] x.val < 0 -> "-" \o (IF (-x.val) % 10 = 0
                              THEN ToString((-x.val) \div 10)
                              ELSE ToString((-x.val) \div 10) \o "."
                                       \o ToString((-x.val) % 10))
      [] OTHER -> IF x.val % 10 = 0
                  THEN ToString(x.val \div 10)
                  ELSE ToString(x.val \div 10) \o "." \o ToString(x.val % 10)

\* Health connect provides certain special values where it otherwise provides dates.
IGNORED_DATES == {"lastSleep"}

\* Sleep stages we don't want to include in our counts.
UNCOUNTED_SLEEP_STAGES == {"Awake"}

\* Exercise-type mappings for Samsung Health.
ExerciseTypeMapping(exerciseName) ==
    IF exerciseName = "Treadmill Running" THEN "Treadmill" ELSE exerciseName

\* The order in which runSync awaits the projectors; the summary flush is ninth.
Categories ==
    <<"calories", "exercise", "heart", "hydration", "oxygen", "sleep", "steps", "weight">>

SummaryStep == Len(Categories) + 1

\* The settings the model keeps (DEFAULT_SETTINGS); create_daily_notes is an
\* input of the model and kept in the variable of that name.
DEFAULT_SETTINGS ==
    [ tables_subfolder      |-> "tables",
      calorie_field         |-> "Active Calories",
      exercise_field        |-> "Exercise Minutes",
      hydration_field       |-> "mL Hydrated",
      steps_field           |-> "Steps",
      weight_field          |-> "Weight",
      total_sleep_field     |-> "Total Sleep",
      heartrate_section     |-> <<"Heartrate">>,
      blood_oxygen_section  |-> <<"Blood Oxygen">>,
      exercise_list_section |-> <<"Oefening">>,
      summary_section       |-> <<"Gezondheid">> ]

\* A per-timestamp mapping (Record<timestamp, ...>) is the list of its
\* properties [time, sample] in the order the response lists them, no time
\* twice.  A time is a number, kept in tenths of a second like every number.

\* The key is an array index: the canonical string of a whole number (all
\* times of the model are far below 2^32 - 1).
IsArrayIndex(time) == time % 10 = 0

HasIndexKey(property) == IsArrayIndex(property.time)

HasNamedKey(property) == ~IsArrayIndex(property.time)

\* The position of the least time of a non-empty list of properties.
LeastAt(properties) ==
    CHOOSE i \in 1..Len(properties) :
        \A k \in 1..Len(properties) : properties[i].time <= properties[k].time

Without(properties, i) ==
    SubSeq(properties, 1, i - 1) \o SubSeq(properties, i + 1, Len(properties))

RECURSIVE AscendingFrom(_, _)
\* The properties by ascending time, the one at i being the least.
AscendingFrom(properties, i) ==
    <<properties[i]>>
        \o (IF Len(properties) = 1 THEN << >>
            ELSE AscendingFrom(Without(properties, i), LeastAt(Without(properties, i))))

Ascending(properties) ==
    IF properties = << >> THEN << >> ELSE AscendingFrom(properties, LeastAt(properties))

\* The order in which for (const time in readings) and Object.values(e) go
\* through an object's own properties: the array-index keys by ascending
\* value, then every other key in the order the properties were added.
OwnProperties(readings) ==
    Ascending(SelectSeq(readings, HasIndexKey)) \o SelectSeq(readings, HasNamedKey)

\* Object.values(e).last()
LastValue(e) == IF e = << >> THEN Undefined ELSE OwnProperties(e)[Len(e)].sample

\* The selector each front-matter projector hands to updateFrontMatterByField.
Selector(category, reading) ==
    CASE category = "calories"  -> JsString(MathRound(reading.energy))
      [] category = "hydration" -> JsString(reading.volume)
      [] category = "steps"     -> JsString(reading.count)
      [] category = "weight"    -> JsString(LastValue(reading))

FieldOf(category) ==
    CASE category = "calories"  -> DEFAULT_SETTINGS.calorie_field
      [] category = "exercise"  -> DEFAULT_SETTINGS.exercise_field
      [] category = "hydration" -> DEFAULT_SETTINGS.hydration_field
      [] category = "steps"     -> DEFAULT_SETTINGS.steps_field
      [] category = "weight"    -> DEFAULT_SETTINGS.weight_field

(***************************************************************************)
(* Rendering of section bodies                                             *)
(***************************************************************************)
RECURSIVE Repeat(_, _)
\* str.repeat(n)
Repeat(str, n) == IF n <= 0 THEN "" ELSE str \o Repeat(str, n - 1)

\* str.padStart(n)
PadStart(str, n) == Repeat(" ", n - Len(str)) \o str

TwoDigits(n) == IF n < 10 THEN "0" \o ToString(n) ELSE ToString(n)

\* "YYYY-MM-DD HH:mm:ss" of a whole number of seconds of the first day of the
\* epoch, in UTC.
FormatSeconds(seconds) ==
    "1970-01-01 " \o TwoDigits(seconds \div 3600) \o ":"
        \o TwoDigits((seconds % 3600) \div 60) \o ":" \o TwoDigits(seconds % 60)

\* renderTime with format_times off: moment(time, "X").format("YYYY-MM-DD HH:mm:ss");
\* the format shows no fraction of a second.
RenderTime(time) == FormatSeconds(time \div 10)

\* The sample selectors of updateHeartrate and updateBloodOxygen.
SampleSelector(category, sample) ==
    IF category = "heart" THEN JsString(sample.bpm) ELSE JsString(sample)

TableHeader(category) == IF category = "heart" THEN "BPM" ELSE "SpO2 %"

TableSlug(category) == IF category = "heart" THEN "heartrate" ELSE "spo2"

TableSection(category) ==
    IF category = "heart" THEN DEFAULT_SETTINGS.heartrate_section
    ELSE DEFAULT_SETTINGS.blood_oxygen_section

\* The row of one sample (line 391).
TableRow(category, property) ==
    "| " \o RenderTime(property.time) \o " | "
         \o PadStart(SampleSelector(category, property.sample), Len(TableHeader(category)))
         \o " |"

RECURSIVE TableRows(_, _)
\* The rows of the given properties, in their order.
TableRows(category, properties) ==
    IF properties = << >> THEN << >>
    ELSE << TableRow(category, Head(properties)), "\n" >>
             \o TableRows(category, Tail(properties))

\* The two lines of the header (lines 377-382), after the empty line the
\* table starts with.
TableHead(category) ==
    << "\n", "| Time     | " \o TableHeader(category) \o " |", "\n",
       "|----------|-" \o Repeat("-", Len(TableHeader(category))) \o "-|", "\n" >>

\* The table identifier and the empty line after it (line 395).
TableAnchor(category) == << "^" \o TableSlug(category), "\n", "\n" >>

GenerateTableFromData(category, readings) ==
    TableHead(category) \o TableRows(category, OwnProperties(readings))
        \o TableAnchor(category)

RECURSIVE ExerciseList(_)
\* The list updateExercise builds from a day's sessions.
ExerciseList(sessions) ==
    IF sessions = << >> THEN << >>
    ELSE << "  - **" \o Head(sessions).durationFormatted \o "**: "
               \o ExerciseTypeMapping(Head(sessions).exerciseName), "\n" >>
             \o ExerciseList(Tail(sessions))

RECURSIVE SummaryLines(_)
SummaryLines(daily_summary) ==
    IF daily_summary = << >> THEN << >>
    ELSE << "**" \o Head(daily_summary).field \o "**:: " \o Head(daily_summary).value,
            "\n" >>
             \o SummaryLines(Tail(daily_summary))

\* The body updateSummary renders for one date.
SummarySection(daily_summary) == <<"\n">> \o SummaryLines(daily_summary)

(***************************************************************************)
(* Notes, front matter and the run summary                                 *)
(***************************************************************************)
NoFile == [exists |-> FALSE, fm |-> << >>, body |-> << >>]

File(fm, body) == [exists |-> TRUE, fm |-> fm, body |-> body]

CalendarDates == {"2024-01-20", "2024-01-21"}

\* moment(raw_date, "YYYY-MM-DD").format(...): what is no date formats as
\* "Invalid date".
FormatDay(raw_date) == IF raw_date \in CalendarDates THEN raw_date ELSE "Invalid date"

Paths == [day : CalendarDates \cup {"Invalid date"}, tables : BOOLEAN]

DailyNotePathFor(raw_date, for_table) ==
    [day    |-> FormatDay(raw_date),
     tables |-> for_table /\ DEFAULT_SETTINGS.tables_subfolder # ""]

\* getTableNoteInitialContents under the given settings.
TableNoteInitialContents(settings) ==
    (IF settings.heartrate_section # << >>
     THEN <<"#", " ">> \o settings.heartrate_section \o <<"\n", "\n">>
     ELSE << >>)
        \o (IF settings.blood_oxygen_section # << >>
            THEN <<"#", " ">> \o settings.blood_oxygen_section \o <<"\n", "\n">>
            ELSE << >>)

GetTableNoteInitialContents == TableNoteInitialContents(DEFAULT_SETTINGS)

\* What createDailyNote fills a new daily note with: the user's template, here
\* one with the two configured sections and a section of the user's own.
DailyNoteTemplate ==
    <<"#", " ">> \o DEFAULT_SETTINGS.exercise_list_section \o <<"\n", "\n">>
        \o <<"#", " ">> \o DEFAULT_SETTINGS.summary_section \o <<"\n", "\n">>
        \o <<"#", " ", "Notes", "\n", "mine", "\n">>

FreshFile(path) ==
    IF path.tables THEN File(<< >>, GetTableNoteInitialContents)
    ELSE File(<< >>, DailyNoteTemplate)

HasField(fields, field) == \E i \in 1..Len(fields) : fields[i].field = field

\* A front matter that takes every assignment as a new line.
SetField_Appending(fields, field, value) ==
    Append(fields, [field |-> field, value |-> value])

\* frontmatter[field] = value: an existing key keeps its place, a new one
\* goes last.
SetField(fields, field, value) ==
    IF HasField(fields, field)
    THEN [i \in 1..Len(fields) |->
            IF fields[i].field = field THEN [field |-> field, value |-> value]
            ELSE fields[i]]
    ELSE Append(fields, [field |-> field, value |-> value])

HasDate(sum, date) == \E i \in 1..Len(sum) : sum[i].date = date

\* A summary that keeps only the latest field of a date.
StoreToSummary_Resetting(sum, target_date, field, value) ==
    LET booted == IF HasDate(sum, target_date) THEN sum
                  ELSE Append(sum, [date |-> target_date, fields |-> << >>])
    IN  [i \in 1..Len(booted) |->
            IF booted[i].date = target_date
            THEN [booted[i] EXCEPT !.fields = << [field |-> field, value |-> value] >>]
            ELSE booted[i]]

StoreToSummary(sum, target_date, field, value) ==
    LET booted == IF HasDate(sum, target_date) THEN sum
                  ELSE Append(sum, [date |-> target_date, fields |-> << >>])
    IN  [i \in 1..Len(booted) |->
            IF booted[i].date = target_date
            THEN [booted[i] EXCEPT !.fields = SetField(@, field, value)]
            ELSE booted[i]]

(***************************************************************************)
(* State                                                                   *)
(***************************************************************************)
VARIABLES
    \* the section-rewriting specification
    content,    \* the note's text
    original,   \* the note's text before the first rewrite
    previous,   \* the note's text before the latest rewrite
    heading,    \* the heading name the rewrites are given
    calls,      \* the bodies given so far, in order
    modified,   \* whether the latest rewrite called vault.modify
    table_settings, \* settings.heartrate_section and settings.blood_oxygen_section
    \* the rendering specification
    samples,    \* a per-timestamp mapping of one date, as the response lists it
    rendered,   \* what a projector made of it, and which
    \* the plugin
    create_daily_notes, \* settings.create_daily_notes
    sensor,     \* response.json.attributes: category -> readings or null
    faulty,     \* the paths at which the storage layer refuses to create a file
    schedule,   \* how the two triggers of runSync are spaced: "once", "twice", "overlap"
    vault,      \* path -> file
    summary,    \* this.summary
    runs,       \* trigger -> where its runSync is
    ops,        \* the updateFrontMatter / replaceSection calls with I/O in flight
    located,    \* history: the arguments dailyNoteFor was called with
    issued,     \* history: the updateFrontMatter and replaceSection calls made
    createCalls,\* history: path -> how often a creation was started
    baseline    \* history: the vault when the latest run started

sectionVars ==
    <<content, original, previous, heading, calls, modified, table_settings,
      samples, rendered>>

pluginVars ==
    <<create_daily_notes, sensor, faulty, schedule, vault, summary, runs, ops,
      located, issued, createCalls, baseline>>

vars == <<sectionVars, pluginVars>>

(***************************************************************************)
(* runSync and what it calls                                               *)
(***************************************************************************)
\* The two callers of runSync: the command's callback and the interval's.
Triggers == {"manual", "timer"}

Null == [isNull |-> TRUE, entries |-> << >>]

Readings(entries) == [isNull |-> FALSE, entries |-> entries]

IdleRun ==
    [pc |-> "idle", status |-> 0, cat |-> 1, idx |-> 1, sub |-> "section",
     notices |-> << >>, nops |-> 0]

CategoryKind(category) ==
    CASE category \in {"calories", "hydration", "steps", "weight"} -> "field"
      [] category = "exercise" -> "exercise"
      [] category \in {"heart", "oxygen"} -> "table"
      [] category = "sleep" -> "sleep"

\* What the calls of one synchronous stretch of code read and change: the
\* vault is only read (a file appears or changes when I/O completes).
Machine ==
    [ops |-> ops, summary |-> summary, located |-> located, issued |-> issued,
     createCalls |-> createCalls]

NewOp(r, n, awaited, kind, category, date, path, pc) ==
    [id |-> <<r, n>>, run |-> r, awaited |-> awaited, kind |-> kind,
     category |-> category, date |-> date, path |-> path, pc |-> pc,
     field |-> "", value |-> "", heading |-> << >>, body |-> << >>, new |-> NoFile]

\* updateFrontMatter from processFrontMatter on (lines 258-263): the front
\* matter write is started and not awaited, the summary is stored at once.
StartProcessFrontMatter(m, op) ==
    [m EXCEPT !.ops = (@ \ {o \in @ : o.id = op.id}) \cup {[op EXCEPT !.pc = "commit"]},
              !.summary = StoreToSummary(@, op.date, op.field, op.value)]

\* dailyNoteFor up to its first I/O (lines 226-244): "found", "creating" or "threw".
DailyNoteFor(path) ==
    IF vault[path].exists THEN "found"
    ELSE IF create_daily_notes THEN "creating"
    ELSE "threw"

\* A call of updateFrontMatter(target_date, field, value) by run r, up to its
\* first I/O.  n numbers the calls of the run.
CallUpdateFrontMatter(m, r, n, awaited, category, target_date, field, value) ==
    LET path == DailyNotePathFor(target_date, FALSE)
        op == [NewOp(r, n, awaited, "setField", category, target_date, path, "creating")
                  EXCEPT !.field = field, !.value = value]
        m1 == [m EXCEPT
                 !.located = @ \cup {[date |-> target_date, for_table |-> FALSE]},
                 !.issued = @ \cup {[run |-> r, kind |-> "setField", category |-> category,
                                     date |-> target_date, field |-> field,
                                     value |-> value]}]
        found == DailyNoteFor(path)
    IN  CASE found = "found" ->
               [outcome |-> "returned", m |-> StartProcessFrontMatter(m1, op)]
          [] found = "creating" ->
               [outcome |-> "pending",
                m |-> [m1 EXCEPT !.ops = @ \cup {op}, !.createCalls[path] = @ + 1]]
          [] OTHER -> [outcome |-> "threw", m |-> m1]

\* A call of replaceSection(date, heading_regex, new_section_content,
\* new_content_is_table) by run r, up to its first I/O.
CallReplaceSection(m, r, n, awaited, category, date, heading_regex, new_section_content, new_content_is_table) ==
    LET path == DailyNotePathFor(date, new_content_is_table)
        op == [NewOp(r, n, awaited, "rewrite", category, date, path, "creating")
                  EXCEPT !.heading = heading_regex, !.body = new_section_content]
        m1 == [m EXCEPT
                 !.located = @ \cup {[date |-> date, for_table |-> new_content_is_table]},
                 !.issued = @ \cup {[run |-> r, kind |-> "rewrite", category |-> category,
                                     date |-> date, field |-> "", value |-> ""]}]
        found == DailyNoteFor(path)
    IN  CASE heading_regex = << >> -> [outcome |-> "returned", m |-> m]
          [] found = "found" ->
               [outcome |-> "pending",
                m |-> [m1 EXCEPT !.ops = @ \cup {[op EXCEPT !.pc = "reading"]}]]
          [] found = "creating" ->
               [outcome |-> "pending",
                m |-> [m1 EXCEPT !.ops = @ \cup {op}, !.createCalls[path] = @ + 1]]
          [] OTHER -> [outcome |-> "threw", m |-> m1]

\* Where a run goes on once the call it awaited has returned.
Resume(run) ==
    LET kind == CategoryKind(Categories[run.cat])
    IN  IF kind = "exercise" /\ run.sub = "section"
        THEN [run EXCEPT !.pc = "running", !.sub = "field"]
        ELSE [run EXCEPT !.pc = "running", !.sub = "section", !.idx = @ + 1]

\* A run after an awaited call: it goes on, waits for the I/O, or ends with
\* the exception no caller catches.
AfterCall(run, outcome) ==
    CASE outcome = "returned" -> Resume(run)
      [] outcome = "pending"  -> [run EXCEPT !.pc = "awaiting"]
      [] OTHER                -> [run EXCEPT !.pc = "failed"]

\* The variables a stretch of code leaves in machine state m.
Commit(m) ==
    /\ ops' = m.ops
    /\ summary' = m.summary
    /\ located' = m.located
    /\ issued' = m.issued
    /\ createCalls' = m.createCalls

RECURSIVE SleepMinutes(_)
\* sleep_minutes += session.duration / 60, over a stage's sessions.
SleepMinutes(sessions) ==
    IF sessions = << >> THEN Num(0)
    ELSE Plus(DivBy60(Head(sessions).duration), SleepMinutes(Tail(sessions)))

RECURSIVE DaySleepWrites_CountingAll(_, _, _)
\* An updateSleep that counts and writes every stage.
DaySleepWrites_CountingAll(date, stages, total_sleep_minutes) ==
    IF stages = << >>
    THEN << [date |-> date, field |-> DEFAULT_SETTINGS.total_sleep_field,
             value |-> JsString(total_sleep_minutes)] >>
    ELSE << [date |-> date, field |-> Head(stages).stageFormat,
             value |-> JsString(SleepMinutes(Head(stages).sessions))] >>
             \o DaySleepWrites_CountingAll(date, Tail(stages),
                     Plus(total_sleep_minutes, SleepMinutes(Head(stages).sessions)))

RECURSIVE DaySleepWrites_TotalEachStage(_, _, _)
\* An updateSleep that writes the running total after every stage it counts.
DaySleepWrites_TotalEachStage(date, stages, total_sleep_minutes) ==
    IF stages = << >>
    THEN << [date |-> date, field |-> DEFAULT_SETTINGS.total_sleep_field,
             value |-> JsString(total_sleep_minutes)] >>
    ELSE LET stage == Head(stages)
             sleep_minutes == SleepMinutes(stage.sessions)
         IN  IF stage.stageFormat \in UNCOUNTED_SLEEP_STAGES
             THEN DaySleepWrites_TotalEachStage(date, Tail(stages), total_sleep_minutes)
             ELSE << [date |-> date, field |-> stage.stageFormat,
                      value |-> JsString(sleep_minutes)],
                     [date |-> date, field |-> DEFAULT_SETTINGS.total_sleep_field,
                      value |-> JsString(Plus(total_sleep_minutes, sleep_minutes))] >>
                      \o DaySleepWrites_TotalEachStage(date, Tail(stages),
                                        Plus(total_sleep_minutes, sleep_minutes))

RECURSIVE DaySleepWrites(_, _, _)
\* The updateFrontMatter calls updateSleep makes for one date (lines 449-473):
\* one per counted stage, then the total.
DaySleepWrites(date, stages, total_sleep_minutes) ==
    IF stages = << >>
    THEN << [date |-> date, field |-> DEFAULT_SETTINGS.total_sleep_field,
             value |-> JsString(total_sleep_minutes)] >>
    ELSE LET stage == Head(stages)
             sleep_minutes == SleepMinutes(stage.sessions)
         IN  IF stage.stageFormat \in UNCOUNTED_SLEEP_STAGES
             THEN DaySleepWrites(date, Tail(stages), total_sleep_minutes)
             ELSE << [date |-> date, field |-> stage.stageFormat,
                      value |-> JsString(sleep_minutes)] >>
                      \o DaySleepWrites(date, Tail(stages),
                                        Plus(total_sleep_minutes, sleep_minutes))

RECURSIVE SleepWrites(_)
\* The updateFrontMatter calls of updateSleep, in the order it makes them.
SleepWrites(entries) ==
    IF entries = << >> THEN << >>
    ELSE (IF Head(entries).key \in IGNORED_DATES THEN << >>
          ELSE DaySleepWrites(Head(entries).key, Head(entries).rec.stage, Num(0)))
             \o SleepWrites(Tail(entries))

RECURSIVE DetachedUpdates(_, _, _, _)
\* updateFrontMatter called for each of ws and not awaited: each call runs up
\* to its first I/O before anything else of the run does.
DetachedUpdates(m, r, n, ws) ==
    IF ws = << >> THEN m
    ELSE DetachedUpdates(
             CallUpdateFrontMatter(m, r, n + 1, FALSE, "sleep", Head(ws).date,
                                   Head(ws).field, Head(ws).value).m,
             r, n + 1, Tail(ws))

RECURSIVE DetachedRewrites(_, _, _, _)
\* replaceSection called for each date of the summary and not awaited.
DetachedRewrites(m, r, n, sum) ==
    IF sum = << >> THEN m
    ELSE DetachedRewrites(
             CallReplaceSection(m, r, n + 1, FALSE, "summary", Head(sum).date,
                                DEFAULT_SETTINGS.summary_section,
                                SummarySection(Head(sum).fields), FALSE).m,
             r, n + 1, Tail(sum))

Ended == {"done", "returned", "failed"}

CurrentCategory(r) == Categories[runs[r].cat]

CurrentReadings(r) == sensor[CurrentCategory(r)]

CurrentEntry(r) == CurrentReadings(r).entries[runs[r].idx]

\* Inside a projector's loop over the dates of its readings.
InLoop(r, kind) ==
    /\ runs[r].pc = "running"
    /\ runs[r].cat <= Len(Categories)
    /\ CategoryKind(CurrentCategory(r)) = kind
    /\ ~CurrentReadings(r).isNull
    /\ runs[r].idx <= Len(CurrentReadings(r).entries)

\* The command's callback or the interval's calls runSync (lines 117, 125);
\* schedule says how the environment spaces the two.
StartRun(r) ==
    /\ runs[r].pc = "idle"
    /\ CASE schedule = "once"  -> r = "manual"
         [] schedule = "twice" ->
                \/ r = "manual"
                \/ r = "timer" /\ runs["manual"].pc \in Ended /\ ops = {}
         [] OTHER -> TRUE
    /\ runs' = [runs EXCEPT ![r].pc = "fetching"]
    /\ baseline' = vault
    /\ UNCHANGED sectionVars
    /\ UNCHANGED <<create_daily_notes, sensor, faulty, schedule, vault, summary,
                   ops, located, issued, createCalls>>

\* A runSync that goes on whatever the status of the response.
FetchSensorData_AnyStatus(r, status) ==
    /\ runs[r].pc = "fetching"
    /\ runs' = [runs EXCEPT ![r] = [@ EXCEPT !.pc = "running", !.status = status]]
    /\ UNCHANGED sectionVars
    /\ UNCHANGED <<create_daily_notes, sensor, faulty, schedule, vault, summary,
                   ops, located, issued, createCalls, baseline>>

\* fetchSensorData returns with the given status (lines 130-133, 496-506).
FetchSensorData(r, status) ==
    /\ runs[r].pc = "fetching"
    /\ runs' = [runs EXCEPT ![r] =
                  CASE status = 404 ->
                         [@ EXCEPT !.pc = "returned", !.status = status,
                                   !.notices = Append(@, "No data to update")]
                    [] status # 200 ->
                         [@ EXCEPT !.pc = "returned", !.status = status,
                                   !.notices = Append(@, "unable to fetch Health Connect data")]
                    [] OTHER -> [@ EXCEPT !.pc = "running", !.status = status]]
    /\ UNCHANGED sectionVars
    /\ UNCHANGED <<create_daily_notes, sensor, faulty, schedule, vault, summary,
                   ops, located, issued, createCalls, baseline>>

\* A projector that takes null readings for an error: the run ends with it.
ProjectorReturns_Throwing(r) ==
    /\ runs[r].pc = "running"
    /\ runs[r].cat <= Len(Categories)
    /\ \/ CurrentReadings(r).isNull
       \/ /\ CategoryKind(CurrentCategory(r)) # "sleep"
          /\ runs[r].idx > Len(CurrentReadings(r).entries)
    /\ runs' = IF CurrentReadings(r).isNull
               THEN [runs EXCEPT ![r].pc = "failed"]
               ELSE [runs EXCEPT ![r].cat = @ + 1, ![r].idx = 1, ![r].sub = "section"]
    /\ UNCHANGED sectionVars
    /\ UNCHANGED <<create_daily_notes, sensor, faulty, schedule, vault, summary,
                   ops, located, issued, createCalls, baseline>>

\* A projector returns: its readings are null, or its loop is over.
ProjectorReturns(r) ==
    /\ runs[r].pc = "running"
    /\ runs[r].cat <= Len(Categories)
    /\ \/ CurrentReadings(r).isNull
       \/ /\ CategoryKind(CurrentCategory(r)) # "sleep"
          /\ runs[r].idx > Len(CurrentReadings(r).entries)
    /\ runs' = [runs EXCEPT ![r].cat = @ + 1, ![r].idx = 1, ![r].sub = "section"]
    /\ UNCHANGED sectionVars
    /\ UNCHANGED <<create_daily_notes, sensor, faulty, schedule, vault, summary,
                   ops, located, issued, createCalls, baseline>>

\* One turn of the loop of updateFrontMatterByField (lines 290-303).
UpdateFrontMatterByField(r) ==
    /\ InLoop(r, "field")
    /\ LET date == CurrentEntry(r).key
           value == Selector(CurrentCategory(r), CurrentEntry(r).rec)
           call == CallUpdateFrontMatter(Machine, r, runs[r].nops + 1, TRUE,
                                         CurrentCategory(r), date,
                                         FieldOf(CurrentCategory(r)), value)
       IN  IF date \in IGNORED_DATES \/ value = "undefined"
           THEN /\ runs' = [runs EXCEPT ![r].idx = @ + 1]
                /\ UNCHANGED <<ops, summary, located, issued, createCalls>>
           ELSE /\ runs' = [runs EXCEPT
                              ![r] = [AfterCall(@, call.outcome) EXCEPT !.nops = @ + 1]]
                /\ Commit(call.m)
    /\ UNCHANGED sectionVars
    /\ UNCHANGED <<create_daily_notes, sensor, faulty, schedule, vault, baseline>>

\* One await of the loop of updateExercise (lines 345-363): the list section,
\* then the front-matter field.
UpdateExercise(r) ==
    /\ InLoop(r, "exercise")
    /\ LET date == CurrentEntry(r).key
           days_exercise == CurrentEntry(r).rec
           call == IF runs[r].sub = "section"
                   THEN CallReplaceSection(Machine, r, runs[r].nops + 1, TRUE, "exercise",
                                           date, DEFAULT_SETTINGS.exercise_list_section,
                                           ExerciseList(days_exercise.sessions), FALSE)
                   ELSE CallUpdateFrontMatter(Machine, r, runs[r].nops + 1, TRUE,
                                              "exercise", date,
                                              DEFAULT_SETTINGS.exercise_field,
                                              JsString(RoundDivBy60(days_exercise.totalDuration)))
       IN  /\ runs' = [runs EXCEPT
                         ![r] = [AfterCall(@, call.outcome) EXCEPT !.nops = @ + 1]]
           /\ Commit(call.m)
    /\ UNCHANGED sectionVars
    /\ UNCHANGED <<create_daily_notes, sensor, faulty, schedule, vault, baseline>>

\* One turn of the loop of updateDailyTables (lines 406-411).
UpdateDailyTables(r) ==
    /\ InLoop(r, "table")
    /\ LET call == CallReplaceSection(Machine, r, runs[r].nops + 1, TRUE,
                                      CurrentCategory(r), CurrentEntry(r).key,
                                      TableSection(CurrentCategory(r)),
                                      GenerateTableFromData(CurrentCategory(r),
                                                            CurrentEntry(r).rec),
                                      TRUE)
       IN  /\ runs' = [runs EXCEPT
                         ![r] = [AfterCall(@, call.outcome) EXCEPT !.nops = @ + 1]]
           /\ Commit(call.m)
    /\ UNCHANGED sectionVars
    /\ UNCHANGED <<create_daily_notes, sensor, faulty, schedule, vault, baseline>>

\* updateSleep (lines 434-475): no call of updateFrontMatter is awaited, so
\* the projector returns with all of them started.
UpdateSleep(r) ==
    /\ runs[r].pc = "running"
    /\ runs[r].cat <= Len(Categories)
    /\ CategoryKind(CurrentCategory(r)) = "sleep"
    /\ ~CurrentReadings(r).isNull
    /\ LET ws == SleepWrites(CurrentReadings(r).entries)
       IN  /\ Commit(DetachedUpdates(Machine, r, runs[r].nops, ws))
           /\ runs' = [runs EXCEPT ![r].cat = @ + 1, ![r].idx = 1,
                                   ![r].nops = @ + Len(ws)]
    /\ UNCHANGED sectionVars
    /\ UNCHANGED <<create_daily_notes, sensor, faulty, schedule, vault, baseline>>

\* updateSummary and the closing notice (lines 144-147, 150-169): no call of
\* replaceSection is awaited.
UpdateSummary(r) ==
    /\ runs[r].pc = "running"
    /\ runs[r].cat = SummaryStep
    /\ LET sum == IF DEFAULT_SETTINGS.summary_section = << >> THEN << >> ELSE summary
       IN  /\ Commit(DetachedRewrites(Machine, r, runs[r].nops, sum))
           /\ runs' = [runs EXCEPT ![r].pc = "done",
                                   ![r].nops = @ + Len(sum),
                                   ![r].notices = Append(@, "Health Connect data sync'd.")]
    /\ UNCHANGED sectionVars
    /\ UNCHANGED <<create_daily_notes, sensor, faulty, schedule, vault, baseline>>

\* The run that awaits op, after op has returned or thrown.
Awaiter(op, threw) ==
    IF ~op.awaited THEN runs
    ELSE IF threw THEN [runs EXCEPT ![op.run].pc = "failed"]
    ELSE [runs EXCEPT ![op.run] = Resume(@)]

\* The creation dailyNoteFor awaits ends (lines 232-245).  It fails where the
\* file exists by now or the storage layer refuses.  A failed vault.create
\* rejects, and dailyNoteFor with it.  A failed createDailyNote is the daily
\* notes library's to report: it rejects, or it resolves without a file, and
\* then vault.read of replaceSection has nothing to read and throws, while
\* updateFrontMatter goes on with no file for processFrontMatter to write.
CreateNoteReturns(op, rejects) ==
    /\ op \in ops
    /\ op.pc = "creating"
    /\ LET fails  == vault[op.path].exists \/ op.path \in faulty
           throws == fails /\ (op.path.tables \/ op.kind = "rewrite" \/ rejects)
       IN  /\ rejects => fails
           /\ IF throws
              THEN /\ ops' = ops \ {op}
                   /\ runs' = Awaiter(op, TRUE)
                   /\ UNCHANGED <<vault, summary>>
              ELSE IF fails
              THEN /\ ops' = ops \ {op}
                   /\ summary' = StoreToSummary(summary, op.date, op.field, op.value)
                   /\ runs' = Awaiter(op, FALSE)
                   /\ UNCHANGED vault
              ELSE /\ vault' = [vault EXCEPT ![op.path] = FreshFile(op.path)]
                   /\ IF op.kind = "setField"
                      THEN /\ ops' = StartProcessFrontMatter(Machine, op).ops
                           /\ summary' = StartProcessFrontMatter(Machine, op).summary
                           /\ runs' = Awaiter(op, FALSE)
                      ELSE /\ ops' = (ops \ {op}) \cup {[op EXCEPT !.pc = "reading"]}
                           /\ UNCHANGED <<summary, runs>>
    /\ UNCHANGED sectionVars
    /\ UNCHANGED <<create_daily_notes, sensor, faulty, schedule, located, issued,
                   createCalls, baseline>>

\* processFrontMatter commits (lines 258-260): an atomic read-modify-write of
\* the file's front matter.
ProcessFrontMatterCommits(op) ==
    /\ op \in ops
    /\ op.pc = "commit"
    /\ vault' = [vault EXCEPT ![op.path].fm = SetField(@, op.field, op.value)]
    /\ ops' = ops \ {op}
    /\ UNCHANGED sectionVars
    /\ UNCHANGED <<create_daily_notes, sensor, faulty, schedule, summary, runs,
                   located, issued, createCalls, baseline>>

\* vault.read returns (lines 316-329): no match ends the call, a match
\* starts vault.modify with the whole new content.
VaultReadReturns(op) ==
    /\ op \in ops
    /\ op.pc = "reading"
    /\ LET file == vault[op.path]
           r == ReplaceSectionOn(file.body, op.heading, op.body)
       IN  IF r.modify
           THEN /\ ops' = (ops \ {op})
                             \cup {[op EXCEPT !.pc = "writing",
                                              !.new = File(file.fm, r.content)]}
                /\ UNCHANGED runs
           ELSE /\ ops' = ops \ {op}
                /\ runs' = Awaiter(op, FALSE)
    /\ UNCHANGED sectionVars
    /\ UNCHANGED <<create_daily_notes, sensor, faulty, schedule, vault, summary,
                   located, issued, createCalls, baseline>>

\* vault.modify returns (line 329): the file is what the call computed from
\* the content it read.
VaultModifyReturns(op) ==
    /\ op \in ops
    /\ op.pc = "writing"
    /\ vault' = [vault EXCEPT ![op.path] = op.new]
    /\ ops' = ops \ {op}
    /\ runs' = Awaiter(op, FALSE)
    /\ UNCHANGED sectionVars
    /\ UNCHANGED <<create_daily_notes, sensor, faulty, schedule, summary,
                   located, issued, createCalls, baseline>>

(***************************************************************************)
(* Inputs of the plugin's specifications                                   *)
(***************************************************************************)
Day1 == "2024-01-20"

Day2 == "2024-01-21"

\* The keys of a category's readings, in the order the response lists them.
KeyPatterns == { <<Day1>>, <<Day1, Day2>>, <<"lastSleep", Day1>> }

\* A day's record of each category (types.ts), complete or with its source
\* field missing.  Seconds are kept in tenths like every number.
SampleReading(category, complete) ==
    CASE category = "calories" ->
           [energy |-> IF complete THEN Num(3126) ELSE Undefined]
      [] category = "exercise" ->
           [sessions |-> << [durationFormatted |-> "31m 30s",
                             exerciseName |-> "Treadmill Running"] >>,
            totalDuration |-> IF complete THEN Num(18900) ELSE Undefined]
      [] category = "heart" ->
           IF complete THEN << [time |-> 1000, sample |-> [bpm |-> Num(600)]],
                                [time |-> 500, sample |-> [bpm |-> Num(1200)]] >>
           ELSE << >>
      [] category = "hydration" ->
           [volume |-> IF complete THEN Num(2505) ELSE Undefined]
      [] category = "oxygen" ->
           IF complete THEN << [time |-> 1000, sample |-> Num(980)] >> ELSE << >>
      [] category = "sleep" ->
           [stage |-> << [stageFormat |-> "Deep",
                          sessions |-> IF complete
                                       THEN << [duration |-> Num(18000)],
                                               [duration |-> Num(9060)] >>
                                       ELSE << >>],
                         [stageFormat |-> "Awake",
                          sessions |-> << [duration |-> Num(6000)] >>] >>]
      [] category = "steps" ->
           [count |-> IF complete THEN Num(80000) ELSE Undefined]
      [] category = "weight" ->
           IF complete THEN << [time |-> 1000, sample |-> Num(700)],
                                [time |-> 2000, sample |-> Num(705)] >>
           ELSE << >>

ReadingsWith(keys, reading) ==
    Readings([k \in 1..Len(keys) |-> [key |-> keys[k], rec |-> reading]])

ReadingOptions(category) ==
    { ReadingsWith(keys, SampleReading(category, TRUE)) : keys \in KeyPatterns }
        \cup { ReadingsWith(<<Day1>>, SampleReading(category, FALSE)) }

CategorySet == { Categories[i] : i \in 1..Len(Categories) }

\* The pairs of categories a response may have readings of together.
PairedCategories == { <<"calories", "weight">>, <<"heart", "weight">> }

\* The responses with readings of the two categories of ab (of one, if the
\* two are the same).
SnapshotsOf(ab) ==
    UNION { { [c \in CategorySet |->
                  IF c = ab[1] THEN oa ELSE IF c = ab[2] THEN ob ELSE Null]
              : ob \in ReadingOptions(ab[2]) }
            : oa \in ReadingOptions(ab[1]) }

\* The responses with readings of one category.
SingleSnapshots == UNION { SnapshotsOf(<<c, c>>) : c \in CategorySet }

\* The responses the model draws from: readings of one category, or of one
\* of the pairs.
SensorSnapshots == SingleSnapshots \cup UNION { SnapshotsOf(ab) : ab \in PairedCategories }

NoFiles == [p \in Paths |-> NoFile]

\* Every calendar date has its daily note and its table note, as created.
FreshFiles ==
    [p \in Paths |-> IF p.day \in CalendarDates THEN FreshFile(p) ELSE NoFile]

\* Only the second date has its notes.
SecondDayFiles ==
    [p \in Paths |-> IF p.day = Day2 THEN FreshFile(p) ELSE NoFile]

InitialVaults == { NoFiles, FreshFiles, SecondDayFiles }

\* Where the storage layer refuses a new file: nowhere, or at the first
\* date's table note.
FaultyOptions == { {}, {[day |-> Day1, tables |-> TRUE]} }

NothingRendered == [by |-> "", text |-> << >>]

\* The two settings of a settings record that name the table sections.
TableSettingsOf(settings) ==
    [heartrate_section    |-> settings.heartrate_section,
     blood_oxygen_section |-> settings.blood_oxygen_section]

SectionIdle ==
    /\ content = << >>
    /\ original = << >>
    /\ previous = << >>
    /\ heading = << >>
    /\ calls = << >>
    /\ modified = FALSE
    /\ table_settings = TableSettingsOf(DEFAULT_SETTINGS)
    /\ samples = << >>
    /\ rendered = NothingRendered

PluginInit(snapshots, vaults, how) ==
    /\ create_daily_notes \in BOOLEAN
    /\ sensor \in snapshots
    /\ vault \in vaults
    /\ faulty \in FaultyOptions
    /\ faulty # {} => create_daily_notes /\ \A p \in faulty : ~vault[p].exists
    /\ schedule = how
    /\ summary = << >>
    /\ runs = [r \in Triggers |-> IdleRun]
    /\ ops = {}
    /\ located = {}
    /\ issued = {}
    /\ createCalls = [p \in Paths |-> 0]
    /\ baseline = vault

PluginIdle ==
    /\ create_daily_notes = TRUE
    /\ sensor = [c \in CategorySet |-> Null]
    /\ vault = NoFiles
    /\ faulty = {}
    /\ schedule = "once"
    /\ summary = << >>
    /\ runs = [r \in Triggers |-> IdleRun]
    /\ ops = {}
    /\ located = {}
    /\ issued = {}
    /\ createCalls = [p \in Paths |-> 0]
    /\ baseline = vault

Statuses == {200, 404, 500}

Init == SectionIdle /\ PluginInit(SensorSnapshots, InitialVaults, "once")

Next ==
    \/ \E r \in Triggers : StartRun(r)
    \/ \E r \in Triggers, status \in Statuses : FetchSensorData(r, status)
    \/ \E r \in Triggers : ProjectorReturns(r)
    \/ \E r \in Triggers : UpdateFrontMatterByField(r)
    \/ \E r \in Triggers : UpdateExercise(r)
    \/ \E r \in Triggers : UpdateDailyTables(r)
    \/ \E r \in Triggers : UpdateSleep(r)
    \/ \E r \in Triggers : UpdateSummary(r)
    \/ \E op \in ops, rejects \in BOOLEAN : CreateNoteReturns(op, rejects)
    \/ \E op \in ops : ProcessFrontMatterCommits(op)
    \/ \E op \in ops : VaultReadReturns(op)
    \/ \E op \in ops : VaultModifyReturns(op)

\* One run of runSync, started by the command.
Spec == Init /\ [][Next]_vars

InitTwice == SectionIdle /\ PluginInit(SingleSnapshots, {FreshFiles}, "twice")

\* Two runs of runSync on the same response, every date's notes fresh at the
\* start: the interval's run starts once the command's run has ended and the
\* I/O it started is over.
SpecTwice == InitTwice /\ [][Next]_vars

(***************************************************************************)
(* Two runs with the sensor changing in between                            *)
(***************************************************************************)
\* The responses with calories or steps readings only.
FieldSnapshots ==
    { s \in SingleSnapshots : ~s["calories"].isNull \/ ~s["steps"].isNull }

\* Home Assistant reports other readings: what the next fetch returns
\* (response.json.attributes, line 506) is not what the last one did.  Here
\* it happens between the two runs.
SensorChanges(snapshot) ==
    /\ runs["manual"].pc \in Ended
    /\ runs["timer"].pc = "idle"
    /\ ops = {}
    /\ snapshot # sensor
    /\ sensor' = snapshot
    /\ UNCHANGED sectionVars
    /\ UNCHANGED <<create_daily_notes, faulty, schedule, vault, summary, runs, ops,
                   located, issued, createCalls, baseline>>

InitChanging ==
    /\ SectionIdle
    /\ PluginInit(FieldSnapshots, {FreshFiles}, "twice")
    /\ create_daily_notes

\* The steps of runs on such responses with every note there (no exercise,
\* table or sleep readings, no note to create), and the sensor's change.
NextChanging ==
    \/ \E r \in Triggers : StartRun(r)
    \/ \E r \in Triggers, status \in Statuses : FetchSensorData(r, status)
    \/ \E r \in Triggers : ProjectorReturns(r)
    \/ \E r \in Triggers : UpdateFrontMatterByField(r)
    \/ \E r \in Triggers : UpdateSummary(r)
    \/ \E op \in ops : ProcessFrontMatterCommits(op)
    \/ \E op \in ops : VaultReadReturns(op)
    \/ \E op \in ops : VaultModifyReturns(op)
    \/ \E snapshot \in FieldSnapshots : SensorChanges(snapshot)

\* Two runs of runSync, one after the other, on responses that may differ.
SpecChanging == InitChanging /\ [][NextChanging]_vars

(***************************************************************************)
(* The command and the interval, each calling runSync when it will         *)
(***************************************************************************)
\* The responses with calories readings only, of one date.
CalorieSnapshots ==
    { s \in SingleSnapshots : ~s["calories"].isNull /\ Len(s["calories"].entries) = 1 }

InitOverlap ==
    /\ SectionIdle
    /\ PluginInit(CalorieSnapshots, {FreshFiles}, "overlap")
    /\ create_daily_notes

\* The steps of runs on responses with calories readings only, with every
\* note there.
NextOverlap ==
    \/ \E r \in Triggers : StartRun(r)
    \/ \E r \in Triggers, status \in Statuses : FetchSensorData(r, status)
    \/ \E r \in Triggers : ProjectorReturns(r)
    \/ \E r \in Triggers : UpdateFrontMatterByField(r)
    \/ \E r \in Triggers : UpdateSummary(r)
    \/ \E op \in ops : ProcessFrontMatterCommits(op)
    \/ \E op \in ops : VaultReadReturns(op)
    \/ \E op \in ops : VaultModifyReturns(op)

\* Nothing orders the command's callback (line 117) and the interval's
\* (line 125): each calls runSync whatever the other's run is doing.
SpecOverlap == InitOverlap /\ [][NextOverlap]_vars

(***************************************************************************)
(* One run on readings of two dates, in either order of the keys           *)
(***************************************************************************)
\* for (const date in readings) iterates the keys in the order the response
\* lists them: either date may come first.
DateOrders == { <<Day1, Day2>>, <<Day2, Day1>> }

\* The categories of updateFrontMatterByField and of updateDailyTables the
\* two-date responses are of.
OrderedCategories == { "calories", "heart" }

\* The responses with readings of one category, of both dates.
OrderedSnapshots ==
    { [c \in CategorySet |->
          IF c = cat THEN ReadingsWith(keys, SampleReading(cat, TRUE)) ELSE Null]
      : cat \in OrderedCategories, keys \in DateOrders }

InitOrder == SectionIdle /\ PluginInit(OrderedSnapshots, InitialVaults, "once")

NextOrder ==
    \/ \E r \in Triggers : StartRun(r)
    \/ \E r \in Triggers, status \in Statuses : FetchSensorData(r, status)
    \/ \E r \in Triggers : ProjectorReturns(r)
    \/ \E r \in Triggers : UpdateFrontMatterByField(r)
    \/ \E r \in Triggers : UpdateDailyTables(r)
    \/ \E r \in Triggers : UpdateSummary(r)
    \/ \E op \in ops, rejects \in BOOLEAN : CreateNoteReturns(op, rejects)
    \/ \E op \in ops : ProcessFrontMatterCommits(op)
    \/ \E op \in ops : VaultReadReturns(op)
    \/ \E op \in ops : VaultModifyReturns(op)

SpecOrder == InitOrder /\ [][NextOrder]_vars

(***************************************************************************)
(* updateFrontMatter called again and again                                *)
(***************************************************************************)
MaxUpdates == 3

FrontMatterFields == { DEFAULT_SETTINGS.calorie_field, DEFAULT_SETTINGS.steps_field }

\* The values the calls write.
FrontMatterValues == { "313", "NaN" }

\* The front matter a daily note may have before the calls.
FrontMatters ==
    { << >>,
      << [field |-> DEFAULT_SETTINGS.calorie_field, value |-> "12"] >>,
      << [field |-> DEFAULT_SETTINGS.calorie_field, value |-> "12"],
         [field |-> "mood", value |-> "fine"] >> }

DailyNotes == { NoFile } \cup { File(fm, DailyNoteTemplate) : fm \in FrontMatters }

\* The first date's note is any of DailyNotes, the second date's is the same
\* note or absent.
FrontMatterVaults ==
    UNION { { [p \in Paths |-> IF p.tables \/ p.day \notin CalendarDates THEN NoFile
                               ELSE IF p.day = Day1 THEN first ELSE second]
              : second \in { first, NoFile } }
            : first \in DailyNotes }

InitFrontMatter ==
    /\ SectionIdle
    /\ create_daily_notes \in BOOLEAN
    /\ sensor = [c \in CategorySet |-> Null]
    /\ vault \in FrontMatterVaults
    /\ faulty = {}
    /\ schedule = "once"
    /\ summary = << >>
    /\ runs = [r \in Triggers |->
                 IF r = "manual" THEN [IdleRun EXCEPT !.pc = "running"] ELSE IdleRun]
    /\ ops = {}
    /\ located = {}
    /\ issued = {}
    /\ createCalls = [p \in Paths |-> 0]
    /\ baseline = vault

\* await this.updateFrontMatter(target_date, field, value) (lines 251-264),
\* by a caller that awaits each call before it makes the next.
UpdateFrontMatter(target_date, field, value) ==
    /\ runs["manual"].pc = "running"
    /\ runs["manual"].nops < MaxUpdates
    /\ LET call == CallUpdateFrontMatter(Machine, "manual", runs["manual"].nops + 1,
                                         TRUE, "none", target_date, field, value)
       IN  /\ runs' = [runs EXCEPT
                         !["manual"] = [AfterCall(@, call.outcome) EXCEPT !.nops = @ + 1]]
           /\ Commit(call.m)
    /\ UNCHANGED sectionVars
    /\ UNCHANGED <<create_daily_notes, sensor, faulty, schedule, vault, baseline>>

NextFrontMatter ==
    \/ \E target_date \in CalendarDates, field \in FrontMatterFields,
          value \in FrontMatterValues :
           UpdateFrontMatter(target_date, field, value)
    \/ \E op \in ops, rejects \in BOOLEAN : CreateNoteReturns(op, rejects)
    \/ \E op \in ops : ProcessFrontMatterCommits(op)

SpecFrontMatter == InitFrontMatter /\ [][NextFrontMatter]_vars

(***************************************************************************)
(* Bounds and inputs of the section-rewriting specification                *)
(***************************************************************************)
MaxPieces == 3
MaxCalls == 2

HeadingLine(name) == <<"#", " ">> \o name \o <<"\n">>

\* What a note is assembled from: two heading lines, a text line, text that
\* does not end its line, a lone "#", an empty line.
SectionPieces ==
    { HeadingLine(<<"H">>), HeadingLine(<<"G">>), <<"a", "\n">>, <<"a">>,
      <<"#">>, <<"\n">> }

RECURSIVE PieceSeqs(_)
PieceSeqs(n) ==
    IF n = 0 THEN { << >> }
    ELSE LET shorter == PieceSeqs(n - 1)
         IN  shorter \cup { Append(ps, p) : ps \in {q \in shorter : Len(q) = n - 1},
                                            p \in SectionPieces }

SectionDocs == { Concat(ps) : ps \in PieceSeqs(MaxPieces) }

SectionNames == { <<"H">>, <<"X">>, << >> }

SectionBodies ==
    { << >>, <<"b", "\n">>, <<"b", "$">>, <<"$", "1">>, <<"b", "#", "c">>,
      <<"\n", "c", "\n">> }


SectionInit ==
    /\ PluginIdle
    /\ content \in SectionDocs
    /\ original = content
    /\ previous = content
    /\ heading \in SectionNames
    /\ calls = << >>
    /\ modified = FALSE
    /\ table_settings = TableSettingsOf(DEFAULT_SETTINGS)
    /\ samples = << >>
    /\ rendered = NothingRendered

\* await this.replaceSection(date, heading, body, ...) on the located note.
ReplaceSection(body) ==
    /\ Len(calls) < MaxCalls
    /\ LET r == ReplaceSectionOn(content, heading, body)
       IN  /\ content' = r.content
           /\ modified' = r.modify
    /\ previous' = content
    /\ calls' = Append(calls, body)
    /\ UNCHANGED <<original, heading, table_settings, samples, rendered>>
    /\ UNCHANGED pluginVars

SectionNext == \E body \in SectionBodies : ReplaceSection(body)

\* replaceSection called again and again on one located note.
SpecSection == SectionInit /\ [][SectionNext]_vars

(***************************************************************************)
(* The table note of one date, created for the first table that needs it   *)
(***************************************************************************)
\* The names a table section may be configured with: the two defaults, one
\* with a unit in parentheses, and none.
TableSectionNames ==
    { <<"Heartrate">>, <<"Blood Oxygen">>, <<"SpO2 ", "(", "%", ")">>, << >> }

TableSettings ==
    [heartrate_section : TableSectionNames, blood_oxygen_section : TableSectionNames]

TableCategories == { "heart", "oxygen" }

TablePath == DailyNotePathFor(Day1, TRUE)

TableInit ==
    /\ PluginIdle
    /\ content = << >>
    /\ original = << >>
    /\ previous = << >>
    /\ heading = << >>
    /\ calls = << >>
    /\ modified = FALSE
    /\ table_settings \in TableSettings
    /\ samples = << >>
    /\ rendered = NothingRendered

\* One turn of updateDailyTables for the date (lines 407-410) with creation
\* enabled and nothing refused: replaceSection returns at once for a section
\* that is not configured, and otherwise has dailyNoteFor create the table
\* note if it is not there yet (line 236) and rewrites the section in what it
\* reads.
RewriteTableSection(category, complete) ==
    /\ Len(calls) < MaxCalls
    /\ LET target_section == IF category = "heart"
                             THEN table_settings.heartrate_section
                             ELSE table_settings.blood_oxygen_section
           new_table == GenerateTableFromData(category, SampleReading(category, complete))
           missing   == createCalls[TablePath] = 0
           read      == IF missing THEN TableNoteInitialContents(table_settings)
                        ELSE content
           r         == ReplaceSectionOn(read, target_section, new_table)
       IN  /\ heading' = target_section
           /\ calls' = Append(calls, new_table)
           /\ modified' = r.modify
           /\ IF target_section = << >>
              THEN UNCHANGED <<content, original, previous, createCalls>>
              ELSE /\ content' = r.content
                   /\ previous' = read
                   /\ original' = IF missing THEN read ELSE original
                   /\ createCalls' = IF missing
                                     THEN [createCalls EXCEPT ![TablePath] = 1]
                                     ELSE createCalls
    /\ UNCHANGED <<table_settings, samples, rendered>>
    /\ UNCHANGED <<create_daily_notes, sensor, faulty, schedule, vault, summary, runs,
                   ops, located, issued, baseline>>

TableNext ==
    \E category \in TableCategories, complete \in BOOLEAN :
        RewriteTableSection(category, complete)

\* The table sections of one date rewritten in any order, under any of the
\* settings.
SpecTables == TableInit /\ [][TableNext]_vars

(***************************************************************************)
(* One date's per-timestamp mapping, rendered as a table or reduced to its *)
(* last value                                                              *)
(***************************************************************************)
MaxSamples == 3

\* The times of the samples, in tenths of a second: 50 s, 100 s, 100.5 s and
\* 200.5 s.
SampleTimes == { 500, 1000, 1005, 2005 }

RECURSIVE TimeLists(_)
\* The lists of up to n different times.
TimeLists(n) ==
    IF n = 0 THEN { << >> }
    ELSE TimeLists(n - 1)
             \cup { Append(ts, t) : ts \in { l \in TimeLists(n - 1) : Len(l) = n - 1 },
                                    t \in SampleTimes }

NoTimeTwice(ts) == \A i, k \in 1..Len(ts) : ts[i] = ts[k] => i = k

\* The mappings the model draws from: every time has its own number as the
\* value measured then.
SampleMappings ==
    { [i \in 1..Len(ts) |-> [time |-> ts[i], sample |-> Num(ts[i])]]
      : ts \in { l \in TimeLists(MaxSamples) : NoTimeTwice(l) } }

\* The mapping as the readings of a date of the category (types.ts): a heart
\* rate sample is a record with its bpm, the others are the number.
ReadingsOf(category, mapping) ==
    IF category = "heart"
    THEN [i \in 1..Len(mapping) |->
             [time |-> mapping[i].time, sample |-> [bpm |-> mapping[i].sample]]]
    ELSE mapping

SamplesInit ==
    /\ PluginIdle
    /\ content = << >>
    /\ original = << >>
    /\ previous = << >>
    /\ heading = << >>
    /\ calls = << >>
    /\ modified = FALSE
    /\ table_settings = TableSettingsOf(DEFAULT_SETTINGS)
    /\ samples \in SampleMappings
    /\ rendered = NothingRendered

\* updateDailyTables renders the date's table (line 408).
RenderTable(category) ==
    /\ rendered = NothingRendered
    /\ rendered' = [by |-> category,
                    text |-> GenerateTableFromData(category, ReadingsOf(category, samples))]
    /\ UNCHANGED <<content, original, previous, heading, calls, modified,
                   table_settings, samples>>
    /\ UNCHANGED pluginVars

\* updateWeight's selector takes the date's value (line 482).
SelectWeight ==
    /\ rendered = NothingRendered
    /\ rendered' = [by |-> "weight",
                    text |-> << Selector("weight", ReadingsOf("weight", samples)) >>]
    /\ UNCHANGED <<content, original, previous, heading, calls, modified,
                   table_settings, samples>>
    /\ UNCHANGED pluginVars

SamplesNext ==
    \/ \E category \in TableCategories : RenderTable(category)
    \/ SelectWeight

SpecSamples == SamplesInit /\ [][SamplesNext]_vars

(***************************************************************************)
(* One run on sleep readings of several stages, the notes being there      *)
(***************************************************************************)
\* A stage bucket of the given name with sessions of the given durations.
SleepStage(stageFormat, durations) ==
    [stageFormat |-> stageFormat,
     sessions |-> [i \in 1..Len(durations) |-> [duration |-> Num(durations[i])]]]

\* The stages of a night: two counted ones, these and an excluded one in
\* between, an excluded one only, and none.
SleepNights ==
    { << SleepStage("Deep", <<18000, 9060>>), SleepStage("REM", <<6000>>) >>,
      << SleepStage("REM", <<6000>>), SleepStage("Awake", <<3000>>),
         SleepStage("Deep", <<18000>>) >>,
      << SleepStage("Awake", <<3000>>) >>,
      << >> }

\* The responses with sleep readings only, under keys of one of the
\* patterns: every date has the same night.
SleepSnapshotsOver(patterns) ==
    { [c \in CategorySet |->
          IF c = "sleep" THEN ReadingsWith(keys, [stage |-> night]) ELSE Null]
      : keys \in patterns, night \in SleepNights }

SleepSnapshots == SleepSnapshotsOver(KeyPatterns)

InitSleep ==
    /\ SectionIdle
    /\ PluginInit(SleepSnapshots, {FreshFiles}, "once")
    /\ create_daily_notes

NextSleep ==
    \/ \E r \in Triggers : StartRun(r)
    \/ \E r \in Triggers, status \in Statuses : FetchSensorData(r, status)
    \/ \E r \in Triggers : ProjectorReturns(r)
    \/ \E r \in Triggers : UpdateSleep(r)
    \/ \E r \in Triggers : UpdateSummary(r)
    \/ \E op \in ops : ProcessFrontMatterCommits(op)
    \/ \E op \in ops : VaultReadReturns(op)
    \/ \E op \in ops : VaultModifyReturns(op)

SpecSleep == InitSleep /\ [][NextSleep]_vars

\* The same run on the sleep of one date, where no note is there yet and
\* notes are created.
InitCreate ==
    /\ SectionIdle
    /\ PluginInit(SleepSnapshotsOver({ <<Day1>> }), {NoFiles}, "once")
    /\ create_daily_notes

NextCreate ==
    \/ NextSleep
    \/ \E op \in ops, rejects \in BOOLEAN : CreateNoteReturns(op, rejects)

SpecCreate == InitCreate /\ [][NextCreate]_vars

(***************************************************************************)
(* Notions the claims about sections are stated with                       *)
(***************************************************************************)

\* A heading line for name starts at i: the position of its last atom before
\* the line break (or the end of the text), else 0.
NamedHeadingAt(s, i, name) ==
    LET hashes == RunOf(s, i, "#")
        after  == i + hashes + 1 + Len(name)
        e      == after + RunOf(s, after, " ")
    IN  /\ i = 1 \/ s[i - 1] = "\n"
        /\ hashes >= 1
        /\ after - 1 <= Len(s)
        /\ s[i + hashes] = " "
        /\ SubSeq(s, i + hashes + 1, after - 1) = name
        /\ e = Len(s) + 1 \/ s[e] = "\n"

HasNamedHeading(s, name) == \E i \in 1..Len(s) : NamedHeadingAt(s, i, name)

\* The start of the first heading line after position j, or the end of the text.
NextHeadingStart(s, j) ==
    LET hs == {n \in (j + 1)..Len(s) : s[n] = "#" /\ s[n - 1] = "\n"}
    IN  IF hs = {} THEN Len(s) + 1 ELSE CHOOSE n \in hs : \A k \in hs : n <= k

\* t ends with the text s has from position n on.
KeepsTail(s, n, t) ==
    LET k == Len(s) - n + 1
    IN  Len(t) >= k /\ From(t, Len(t) - k + 1) = From(s, n)

\* C1: when replaceSection matches the heading, the note written back equals
\* the note read up to and including the matched heading line, and from the
\* next heading on.
C1_SectionIsolation ==
    (calls # << >> /\ modified) =>
        LET m == SectionRegexExec(previous, heading)
            j == m.start + Len(m.caps[1]) - 1
            n == NextHeadingStart(previous, j)
        IN  /\ Len(content) >= j + (Len(previous) - n + 1)
            /\ Upto(content, j + 1) = Upto(previous, j + 1)
            /\ KeepsTail(previous, n, content)

\* C2: a rewrite whose heading name is the name of no heading line of the note
\* leaves the note as it was and does not write it.
C2_NoMatchNoOp ==
    (calls # << >> /\ ~HasNamedHeading(previous, heading)) =>
        (content = previous /\ ~modified)

\* C2 happens: a rewrite with a body was given a name the note has no heading
\* of, while the note has another heading.
C2_Witness ==
    /\ calls # << >>
    /\ heading # << >>
    /\ ~HasNamedHeading(previous, heading)
    /\ HasNamedHeading(previous, <<"G">>)
    /\ calls[Len(calls)] # << >>

\* The call updateFrontMatter(target_date, field, "313") as the history keeps it.
FieldWrite(target_date, field) ==
    [run |-> "manual", kind |-> "setField", category |-> "none",
     date |-> target_date, field |-> field, value |-> "313"]

\* One field was written to the notes of both dates, to one of them more than
\* once, every call has returned and every write it started is over.
WrittenOnceAndAgain(field) ==
    /\ runs["manual"].pc = "running"
    /\ runs["manual"].nops > 2
    /\ issued = { FieldWrite(Day1, field), FieldWrite(Day2, field) }
    /\ ops = {}

\* C3: of two daily notes that were the same, the one updateFrontMatter wrote
\* a field and value to more than once is identical to the one it wrote them
\* to once.
C3_FieldWriteIdempotent ==
    \A field \in FrontMatterFields :
        (/\ WrittenOnceAndAgain(field)
         /\ baseline[DailyNotePathFor(Day1, FALSE)] = baseline[DailyNotePathFor(Day2, FALSE)])
            => vault[DailyNotePathFor(Day1, FALSE)] = vault[DailyNotePathFor(Day2, FALSE)]

\* C3 happens: the field was in both notes with another value, and is written.
C3_Witness ==
    /\ WrittenOnceAndAgain(DEFAULT_SETTINGS.calorie_field)
    /\ baseline[DailyNotePathFor(Day1, FALSE)] = baseline[DailyNotePathFor(Day2, FALSE)]
    /\ Len(baseline[DailyNotePathFor(Day1, FALSE)].fm) = 2
    /\ vault[DailyNotePathFor(Day1, FALSE)].fm[1].value = "313"

\* C4: once a second run on the same response has ended and its writes are
\* over, every note is as the first run left it.
C4_RunIdempotence ==
    (/\ runs["manual"].pc = "done"
     /\ runs["timer"].pc = "done"
     /\ ops = {})
        => vault = baseline

\* C5: after rewriting a section with X and then with Y, the note is the
\* original heading line, then Y, then the original text from the end of the
\* section on.
C5_SectionRoundTrip ==
    (Len(calls) = 2 /\ heading # << >> /\ HasNamedHeading(original, heading)) =>
        \E i \in 1..Len(original) :
            /\ HeadingLineEnd(original, i, heading) # 0
            /\ LET j == HeadingLineEnd(original, i, heading)
                   n == NextHeadingStart(original, j)
               IN  \E k \in {n - 1, n} :
                      /\ k > j
                      /\ content = Upto(original, j + 1) \o calls[2] \o From(original, k)

\* C6: with note creation disabled, a date whose note is absent is skipped and
\* the run goes on: no run ends with an exception.
C6_UnavailableIsSkipped ==
    ~create_daily_notes => \A r \in Triggers : runs[r].pc # "failed"

\* C7: a note the storage layer refuses to create costs that date's update
\* only: the run goes on to the remaining dates, categories and the summary,
\* and does not end with an exception.
C7_CreationFailureIsolated ==
    (create_daily_notes /\ faulty # {}) => \A r \in Triggers : runs[r].pc # "failed"

\* C8: no projector hands a reserved key to dailyNoteFor, and no note is
\* created for one.
C8_SentinelExclusion ==
    /\ \A l \in located : l.date \notin IGNORED_DATES
    /\ \A p \in Paths : p.day \notin CalendarDates => createCalls[p] = 0

\* The record lacks the field the category's front-matter value is taken from.
SourceMissing(category, rec) ==
    CASE category = "calories"  -> rec.energy.kind = "undefined"
      [] category = "exercise"  -> rec.totalDuration.kind = "undefined"
      [] category = "hydration" -> rec.volume.kind = "undefined"
      [] category = "steps"     -> rec.count.kind = "undefined"
      [] category = "weight"    -> rec = << >>
      [] OTHER                  -> FALSE

\* C9: no updateFrontMatter is issued for a date whose record lacks the field
\* the value is taken from.
C9_MissingValueGuard ==
    \A i \in issued :
        (i.kind = "setField" /\ i.category \in CategorySet) =>
            \A k \in 1..Len(sensor[i.category].entries) :
                sensor[i.category].entries[k].key = i.date =>
                    ~SourceMissing(i.category, sensor[i.category].entries[k].rec)

\* C10: a run whose fetch returned a status other than 200 has ended with one
\* notice, has entered no projector and no summary flush, has made no call
\* that locates or writes a note, and no note was created or modified.
C10_FailedFetchWritesNothing ==
    \A r \in Triggers :
        runs[r].status \notin {0, 200} =>
            /\ runs[r].pc = "returned"
            /\ Len(runs[r].notices) = 1
            /\ runs[r].cat = 1
            /\ runs[r].nops = 0
            /\ { i \in issued : i.run = r } = {}
            /\ { o \in ops : o.run = r } = {}
            /\ located = {}
            /\ vault = baseline

\* C10 happens: the fetch returned 500 while the response had readings a run
\* would have written.
C10_Witness ==
    /\ runs["manual"].status = 500
    /\ ~sensor["calories"].isNull
    /\ ~vault[DailyNotePathFor(Day1, FALSE)].exists

RECURSIVE CountedMinutes(_)
\* The minutes of the sessions of the stages that are not excluded.
CountedMinutes(stages) ==
    IF stages = << >> THEN Num(0)
    ELSE IF Head(stages).stageFormat \in UNCOUNTED_SLEEP_STAGES
    THEN CountedMinutes(Tail(stages))
    ELSE Plus(CountedMinutes(Tail(stages)), SleepMinutes(Head(stages).sessions))

\* C11: updateSleep issues no front-matter write for an excluded stage, and
\* the total it writes for a date is the minutes of the other stages only.
C11_StageExclusion ==
    \A i \in issued :
        i.category = "sleep" =>
            /\ i.field \notin UNCOUNTED_SLEEP_STAGES
            /\ i.field = DEFAULT_SETTINGS.total_sleep_field =>
                  \A k \in 1..Len(sensor["sleep"].entries) :
                      sensor["sleep"].entries[k].key = i.date =>
                          i.value = JsString(CountedMinutes(sensor["sleep"].entries[k].rec.stage))

\* C11 happens: the total of a date with Awake sessions has been written.
C11_Witness ==
    \E i \in issued :
        /\ i.category = "sleep"
        /\ i.field = DEFAULT_SETTINGS.total_sleep_field
        /\ i.value = "45.1"
        /\ \E k \in 1..Len(sensor["sleep"].entries) :
              \E n \in 1..Len(sensor["sleep"].entries[k].rec.stage) :
                  /\ sensor["sleep"].entries[k].rec.stage[n].stageFormat = "Awake"
                  /\ sensor["sleep"].entries[k].rec.stage[n].sessions # << >>

\* The values the summary holds for a field of a date: none or one.
SummaryValues(sum, date, field) ==
    { sum[i].fields[j].value :
        <<i, j>> \in { ij \in (1..Len(sum)) \X (1..4) :
                          /\ sum[ij[1]].date = date
                          /\ ij[2] <= Len(sum[ij[1]].fields)
                          /\ sum[ij[1]].fields[ij[2]].field = field } }

\* The (date, field) pairs the summary has an entry for.
SummaryKeys(sum) ==
    UNION { { <<sum[i].date, sum[i].fields[j].field>> : j \in 1..Len(sum[i].fields) }
            : i \in 1..Len(sum) }

\* C12: every step in which updateFrontMatter calls go past their
\* processFrontMatter leaves the summary with the written value under each
\* call's date and field and with every other entry as it was; no entry ever
\* leaves the summary or changes otherwise, and the value is stored whatever
\* the note holds.
C12_SummaryAccumulates ==
    [][ /\ \A o \in { c \in ops' : c.kind = "setField" /\ c.pc = "commit" } \ ops :
             SummaryValues(summary', o.date, o.field) = { o.value }
        /\ \A key \in SummaryKeys(summary) :
             \/ SummaryValues(summary', key[1], key[2]) = SummaryValues(summary, key[1], key[2])
             \/ \E o \in (ops \cup ops') :
                    o.kind = "setField" /\ o.date = key[1] /\ o.field = key[2]
                    /\ SummaryValues(summary', key[1], key[2]) = { o.value }
        /\ \A key \in SummaryKeys(summary') \ SummaryKeys(summary) :
             \E o \in (ops \cup ops') :
                 o.kind = "setField" /\ o.date = key[1] /\ o.field = key[2]
                 /\ SummaryValues(summary', key[1], key[2]) = { o.value }
      ]_vars

\* C12 happens: a field of a date has been overwritten with another value
\* while another field of the date stayed, and the note held the value.
C12_Witness ==
    /\ runs["manual"].nops = 3
    /\ ops = {}
    /\ summary = << [date |-> Day1,
                     fields |-> << [field |-> DEFAULT_SETTINGS.calorie_field, value |-> "NaN"],
                                   [field |-> DEFAULT_SETTINGS.steps_field, value |-> "313"] >>] >>
    /\ vault[DailyNotePathFor(Day1, FALSE)].fm
           = << [field |-> DEFAULT_SETTINGS.calorie_field, value |-> "NaN"],
                [field |-> DEFAULT_SETTINGS.steps_field, value |-> "313"] >>

\* C13: the summary is empty when a run starts, and what a run's summary
\* flush renders holds only dates and fields the run itself has written.
C13_SummaryScopedToRun ==
    \A r \in Triggers :
        /\ runs[r].pc = "fetching" => summary = << >>
        /\ (runs[r].pc = "running" /\ runs[r].cat = SummaryStep) =>
               \A key \in SummaryKeys(summary) :
                   \E i \in issued :
                       i.run = r /\ i.kind = "setField" /\ i.date = key[1] /\ i.field = key[2]

\* C14: when a run's updateSummary renders the summary, every
\* updateFrontMatter call the run has made and that is still under way has
\* stored its field: the summary has the field under the call's date.
C14_FlushSeesEveryWrite ==
    \A r \in Triggers :
        (runs[r].pc = "running" /\ runs[r].cat = SummaryStep) =>
            \A o \in ops :
                (o.run = r /\ o.kind = "setField") =>
                    /\ o.pc = "commit"
                    /\ SummaryValues(summary, o.date, o.field) = { o.value }

\* C15: when a run is about to start its next per-date update, its next
\* projector or the summary flush, no creation, front-matter write, read or
\* write of a note that it started earlier is still under way.
C15_NoParallelExecution ==
    \A r \in Triggers :
        runs[r].pc = "running" => { o \in ops : o.run = r } = {}

\* The run has fetched and has not yet flushed the summary: its projectors
\* write this.summary, its flush will read it.
UsesSummary(r) == runs[r].pc \in {"running", "awaiting"}

\* C16: the command's run and the interval's run are never both between
\* their fetch and their summary flush.
C16_RunsNeverOverlap ==
    ~(UsesSummary("manual") /\ UsesSummary("timer"))

\* The part of a note category c's projector writes: the body of a table
\* note, the front matter of a daily note.
PartOf(c, file) == IF CategoryKind(c) = "table" THEN file.body ELSE file.fm

\* What projecting date's entry of category c leaves of that part of a note
\* that was there when the run started: the table installed, or the field set.
Projected(c, date, rec) ==
    LET file == baseline[DailyNotePathFor(date, CategoryKind(c) = "table")]
    IN  IF CategoryKind(c) = "table"
        THEN ReplaceSectionOn(file.body, TableSection(c),
                              GenerateTableFromData(c, rec)).content
        ELSE SetField(file.fm, FieldOf(c), Selector(c, rec))

\* The run of the command has ended after a good fetch and its I/O is over.
RunOver == runs["manual"].pc \in {"done", "failed"} /\ ops = {}

\* C17: where a date stands in the iteration order makes no difference to its
\* document: the run leaves it as it does when the date is iterated first,
\* which for a note that was there when the run started is the note with the
\* date's entry projected onto it.
C17_OrderIndependence ==
    RunOver =>
        \A c \in OrderedCategories :
            \A k \in 1..Len(sensor[c].entries) :
                LET e == sensor[c].entries[k]
                    path == DailyNotePathFor(e.key, CategoryKind(c) = "table")
                IN  baseline[path].exists =>
                        PartOf(c, vault[path]) = Projected(c, e.key, e.rec)

\* The date iterated first, its note there when the run started, is
\* projected although the run ended on the other date's absent note.
C17_FirstDateProjected ==
    /\ RunOver
    /\ runs["manual"].pc = "failed"
    /\ \E c \in OrderedCategories :
          /\ Len(sensor[c].entries) = 2
          /\ LET e == sensor[c].entries[1]
                 path == DailyNotePathFor(e.key, CategoryKind(c) = "table")
             IN  /\ baseline[path].exists
                 /\ PartOf(c, vault[path]) = Projected(c, e.key, e.rec)
                 /\ vault[path] # baseline[path]

\* Run r is about to call the projector of a category the response has no
\* readings of.
AtNullCategory(r) ==
    /\ runs[r].pc = "running"
    /\ runs[r].cat <= Len(Categories)
    /\ CurrentReadings(r).isNull

\* C18: the step a run takes at a category whose collection is null only
\* moves the run on to the next category: no note is located, created or
\* modified, no call is issued or started, the summary is as it was, and the
\* run has not ended with an exception.
C18_NullCollectionSkipped ==
    [][\A r \in Triggers :
          (AtNullCategory(r) /\ runs'[r] # runs[r]) =>
              /\ runs'[r] = [runs[r] EXCEPT !.cat = @ + 1, !.idx = 1, !.sub = "section"]
              /\ UNCHANGED <<located, issued, createCalls, vault, summary, ops>>]_vars

\* C18 happens: the run has passed the seven categories the response has no
\* readings of, has projected the weight it has, and has ended with the
\* closing notice.
C18_Witness ==
    /\ runs["manual"].pc = "done"
    /\ \A c \in CategorySet \ {"weight"} : sensor[c].isNull
    /\ ~sensor["weight"].isNull
    /\ \E i \in issued : i.category = "weight"
    /\ \A i \in issued : i.category \in {"weight", "summary"}

\* What the boundary group of match m captured: "\n#" or nothing.
BoundaryOf(m) == m.caps[Len(m.caps) - 2]

\* C19: after a replaceSection that matched, the note is what it was with the
\* section's body replaced by the new body as given, atom for atom, between
\* the heading line and the boundary the expression matched.
C19_ReplacementIsLiteral ==
    (calls # << >> /\ modified) =>
        LET m == SectionRegexExec(previous, heading)
        IN  content = Upto(previous, m.start) \o m.caps[1] \o calls[Len(calls)]
                          \o BoundaryOf(m) \o From(previous, m.stop)

\* A body without "$" is installed as given.
C19_PlainBodyInstalled ==
    /\ calls # << >>
    /\ modified
    /\ calls[Len(calls)] = <<"b", "\n">>
    /\ LET m == SectionRegexExec(previous, heading)
       IN  content = Upto(previous, m.start) \o m.caps[1] \o <<"b", "\n">>
                         \o BoundaryOf(m) \o From(previous, m.stop)

\* The line "# name" as getTableNoteInitialContents writes it stands in s.
HeadingWritten(s, name) ==
    \E i \in 1..Len(s) :
        /\ AtLineStart(s, i)
        /\ SubSeq(s, i, i + Len(name) + 2) = <<"#", " ">> \o name \o <<"\n">>

\* The line "# name" stands in s with body right after it.
BodyInstalled(s, name, body) ==
    \E i \in 1..Len(s) :
        /\ AtLineStart(s, i)
        /\ SubSeq(s, i, i + Len(name) + 2 + Len(body))
               = <<"#", " ">> \o name \o <<"\n">> \o body

ConfiguredSections ==
    {table_settings.heartrate_section, table_settings.blood_oxygen_section} \ { << >> }

\* C20: the table note is created with the heading of every configured table
\* section, and a rewrite of a configured section, first or second, of either
\* section, finds its heading there and installs the table under it, the
\* headings of the configured sections all still standing.
C20_FreshTableNoteTargetable ==
    (calls # << >> /\ heading # << >>) =>
        /\ \A name \in ConfiguredSections : HeadingWritten(original, name)
        /\ modified
        /\ BodyInstalled(content, heading, calls[Len(calls)])
        /\ \A name \in ConfiguredSections : HeadingWritten(content, name)

\* Under the default settings both tables have been installed, blood oxygen
\* first, in the note created for it.
C20_DefaultSectionsInstalled ==
    /\ table_settings = TableSettingsOf(DEFAULT_SETTINGS)
    /\ Len(calls) = 2
    /\ createCalls[TablePath] = 1
    /\ original = GetTableNoteInitialContents
    /\ heading = DEFAULT_SETTINGS.heartrate_section
    /\ content = <<"#", " ">> \o DEFAULT_SETTINGS.heartrate_section \o <<"\n">>
                     \o calls[2]
                     \o <<"\n", "#", " ">> \o DEFAULT_SETTINGS.blood_oxygen_section \o <<"\n">>
                     \o calls[1]
    /\ calls[1] = GenerateTableFromData("oxygen", SampleReading("oxygen", TRUE))
    /\ calls[2] = GenerateTableFromData("heart", SampleReading("heart", TRUE))

\* The times of the samples are in ascending order.
TimesAscend(properties) ==
    \A i, k \in 1..Len(properties) : i < k => properties[i].time < properties[k].time

\* C21: the table is the two lines of the header, then one row for each
\* sample of the mapping, the rows by ascending time, then the "^slug" line.
C21_TableRendering ==
    rendered.by \in TableCategories =>
        \E rows \in [1..Len(samples) -> 1..Len(samples)] :
            /\ \A i, k \in 1..Len(samples) : rows[i] = rows[k] => i = k
            /\ TimesAscend([i \in 1..Len(samples) |-> samples[rows[i]]])
            /\ rendered.text
                   = TableHead(rendered.by)
                       \o TableRows(rendered.by,
                                    [i \in 1..Len(samples) |->
                                        ReadingsOf(rendered.by, samples)[rows[i]]])
                       \o TableAnchor(rendered.by)

\* Two samples at whole seconds, listed latest first, are rendered by
\* ascending time.
C21_WholeSecondsAscend ==
    /\ rendered.by = "heart"
    /\ Len(samples) = 2
    /\ samples[1].time = 1000
    /\ samples[2].time = 500
    /\ rendered.text
           = TableHead("heart")
               \o << "| 1970-01-01 00:00:50 | " \o " 50" \o " |", "\n",
                     "| 1970-01-01 00:01:40 | " \o "100" \o " |", "\n" >>
               \o <<"^heartrate", "\n", "\n">>

\* C23: the value taken for the weight field of a date with samples is the
\* one measured at the greatest time.
C23_WeightIsLatest ==
    (rendered.by = "weight" /\ samples # << >>) =>
        \E i \in 1..Len(samples) :
            /\ \A k \in 1..Len(samples) : samples[k].time <= samples[i].time
            /\ rendered.text = << JsString(samples[i].sample) >>

\* Of two weights at whole seconds, listed latest first, the later is taken.
C23_WholeSecondsLatest ==
    /\ rendered.by = "weight"
    /\ Len(samples) = 2
    /\ samples[1].time = 1000
    /\ samples[2].time = 500
    /\ rendered.text = << "100" >>

\* Run r takes the step that is updateSleep on readings that are not null.
SleepStep(r) ==
    /\ runs[r].pc = "running"
    /\ runs[r].cat <= Len(Categories)
    /\ CurrentCategory(r) = "sleep"
    /\ ~CurrentReadings(r).isNull
    /\ runs'[r].cat = runs[r].cat + 1

\* The calls of updateFrontMatter for date the step has started.
StartedFor(date) == { o \in ops' \ ops : o.kind = "setField" /\ o.date = date }

\* C22: for every date of the sleep readings that is no reserved key,
\* updateSleep calls updateFrontMatter for the total-sleep field once, after
\* its calls for the stages of that date, with the minutes of the stages that
\* are not excluded.
C22_SleepTotal ==
    [][\A r \in Triggers :
          SleepStep(r) =>
              \A k \in 1..Len(sensor["sleep"].entries) :
                  LET e == sensor["sleep"].entries[k]
                      totals == { o \in StartedFor(e.key) :
                                     o.field = DEFAULT_SETTINGS.total_sleep_field }
                  IN  e.key \notin IGNORED_DATES =>
                          /\ Cardinality({ o.id : o \in totals }) = 1
                          /\ \A o \in totals :
                                /\ o.value = JsString(CountedMinutes(e.rec.stage))
                                /\ \A q \in StartedFor(e.key) : q.id[2] <= o.id[2]]_vars

\* C22 happens: the total of a night of two counted stages and an excluded
\* one, 40 minutes, has been written to the date's note after the stages.
C22_Witness ==
    /\ runs["manual"].pc = "done"
    /\ ops = {}
    /\ vault[DailyNotePathFor(Day1, FALSE)].fm
           = << [field |-> "REM", value |-> "10"],
                [field |-> "Deep", value |-> "30"],
                [field |-> DEFAULT_SETTINGS.total_sleep_field, value |-> "40"] >>

\* The front matter has the field with the value.
HoldsField(fields, field, value) ==
    \E k \in 1..Len(fields) : fields[k] = [field |-> field, value |-> value]

\* vault.modify of the section rewrite op returns in this step.
RewriteLands(op) == op.kind = "rewrite" /\ op.pc = "writing" /\ op \notin ops'

\* C24: no section rewrite of a note writes back a front matter older than
\* the one the note has, and when the run and the operations it started are
\* over, the note of every date holds the value of every updateFrontMatter
\* call made for it.
C24_NoLostMetadataUpdate ==
    /\ [][\A op \in ops :
             RewriteLands(op) => vault'[op.path].fm = vault[op.path].fm]_vars
    /\ [](RunOver =>
             \A i \in issued :
                 i.kind = "setField" =>
                     HoldsField(vault[DailyNotePathFor(i.date, FALSE)].fm,
                                i.field, i.value))

\* C25: during a run the creation of a note is started at most once for any
\* path, also where updateSleep makes several updateFrontMatter calls for one
\* date without awaiting any.
C25_SingleCreation == \A p \in Paths : createCalls[p] <= 1

\* The creation of the note of a date is started once for the calls of
\* updateSleep: the night has an excluded stage only, and the total is the
\* one call there is.
C25_OneCallOneCreation ==
    /\ \E r \in Triggers : runs[r].pc = "done"
    /\ ops = {}
    /\ createCalls[DailyNotePathFor(Day1, FALSE)] = 1
    /\ \E i \in issued : i.kind = "setField" /\ i.category = "sleep"
    /\ HoldsField(vault[DailyNotePathFor(Day1, FALSE)].fm,
                  DEFAULT_SETTINGS.total_sleep_field, "0")

====
